---- MODULE Spec2Model ----
(***************************************************************************)
(* Model of libsoni/core/f0.py: sonify_f0 (stretching of an f0 trajectory  *)
(* into dense per-sample frequency and gain arrays) and                    *)
(* sonify_f0_with_presets (multi-voice mixing).                            *)
(*                                                                         *)
(* Representation of numbers                                               *)
(*   - A time value is a double that is the correctly rounded quotient of  *)
(*     two small integers; it is kept as the pair [n, d] and stands for    *)
(*     fl(n/d).  Trajectory times are n/TimeDen (a power of two, hence     *)
(*     exact); duration_in_sec is fl(sonification_duration / fs).          *)
(*   - Products with fs and their int() / ceil() are computed with the     *)
(*     IEEE-754 binary64 round-to-nearest-even result, derived with small  *)
(*     integers only (DivErr, IntMul, CeilMul).                            *)
(*   - A gain value g is kept as the integer g * GainDen.                  *)
(*   - numpy arrays are sequences; sample index k is position k + 1.       *)
(***************************************************************************)
EXTENDS Integers, Sequences, FiniteSets, TLC

VARIABLES pc, api, fs, normalize,
          time_f0, gains, sonification_duration,
          time_positions, f0s, num_samples, shorter_duration,
          gains_resolved, f0s_stretched, gains_stretched, raised,
          f0_sonification,
          preset_dict, label, mix_duration, mix_length, mix_sonification,
          mix_raised

vars == <<pc, api, fs, normalize, time_f0, gains, sonification_duration,
          time_positions, f0s, num_samples, shorter_duration,
          gains_resolved, f0s_stretched, gains_stretched, raised,
          f0_sonification,
          preset_dict, label, mix_duration, mix_length, mix_sonification,
          mix_raised>>

argvars == <<api, fs, normalize, time_f0, gains, sonification_duration>>

mixvars == <<preset_dict, label, mix_duration, mix_length, mix_sonification,
             mix_raised>>

-----------------------------------------------------------------------------
(* Bounds of the model *)

MaxTime == 3
MaxLen == 2
MaxDur == 15
DurStep == 5
MaxVoices == 2

(* Units *)
TimeDen == 2
GainDen == 2
MantissaBits == 53

FsVals == {5, 11}
F0Vals == {220, 440}
GainVals == {1, 2}

-----------------------------------------------------------------------------
(* Floating point: binary64 arithmetic on quotients of small integers *)

RECURSIVE Pow2(_)
Pow2(k) == IF k <= 0 THEN 1 ELSE 2 * Pow2(k - 1)

RECURSIVE PowMod2(_, _)
PowMod2(k, m) == IF k <= 0 THEN 1 % m ELSE (2 * PowMod2(k - 1, m)) % m

RECURSIVE FloorLog2(_)
FloorLog2(x) == IF x < 2 THEN 0 ELSE 1 + FloorLog2(x \div 2)

RECURSIVE NegExp(_, _)
NegExp(n, d) == IF n >= d THEN 0 ELSE 1 + NegExp(2 * n, d)

\* floor(log2(n/d)) for n >= 1, d >= 1
QuotExp(n, d) == IF n >= d THEN FloorLog2(n \div d) ELSE 0 - NegExp(n, d)

\* fl(n/d) = (n * 2^k + DivErr(n, d)) / (d * 2^k), where k scales the
\* quotient to a MantissaBits-bit integer; round to nearest, ties to even.
DivErr(n, d) ==
    IF n = 0 THEN 0
    ELSE LET k == (MantissaBits - 1) - QuotExp(n, d)
             r == ((n % d) * PowMod2(k, d)) % d
             odd == (((n % (2 * d)) * PowMod2(k, 2 * d)) % (2 * d)) >= d
         IN  IF 2 * r < d THEN 0 - r
             ELSE IF 2 * r > d THEN d - r
             ELSE IF odd THEN d - r ELSE 0 - r

\* int(fl(n/d) * rate): the double product, rounded, truncated toward zero
IntMul(x, rate) ==
    IF (x.n * rate) % x.d # 0 THEN (x.n * rate) \div x.d
    ELSE LET N == (x.n * rate) \div x.d
             e == DivErr(x.n, x.d)
             a == FloorLog2(N)
             j == QuotExp(x.n, x.d)
             p == IF N = Pow2(a) THEN 2 ELSE 1
         IN  IF N = 0 THEN 0
             ELSE IF e < 0 /\ 2 * (0 - e) * rate * p > x.d * Pow2(a - j)
                  THEN N - 1
                  ELSE N

\* int(np.ceil(rate * fl(n/d)))
CeilMul(x, rate) ==
    IF (x.n * rate) % x.d # 0 THEN ((x.n * rate) \div x.d) + 1
    ELSE LET N == (x.n * rate) \div x.d
             e == DivErr(x.n, x.d)
             a == FloorLog2(N)
             j == QuotExp(x.n, x.d)
         IN  IF N = 0 THEN 0
             ELSE IF e > 0 /\ 2 * e * rate > x.d * Pow2(a - j)
                  THEN N + 1
                  ELSE N

\* fl(n1/d1) < fl(n2/d2); distinct quotients of small integers are many ulps apart
Less(x, y) == x.n * y.d < y.n * x.d

Time(h) == [n |-> h, d |-> TimeDen]

-----------------------------------------------------------------------------
(* numpy helpers *)

Min(a, b) == IF a < b THEN a ELSE b

Zeros(len) == [p \in 1..len |-> 0]

Ones(len) == [p \in 1..len |-> GainDen]

\* arr[s:e] = v  (the bounds are evaluated once, the result is a plain tuple)
AssignSlice(arr, s, e, v) ==
    LET Fill(b) == SubSeq([p \in 1..Len(arr) |->
                             IF b[1] <= p - 1 /\ p - 1 < b[2] THEN v ELSE arr[p]],
                          1, Len(arr))
    IN  CHOOSE out \in {Fill(b) : b \in {<<s, e>>}} : TRUE

Append1(seq, v) == seq \o <<v>>

Prefix(seq, len) == SubSeq(seq, 1, Min(len, Len(seq)))

\* number of leading entries of a sorted-or-not array selected by a boolean mask
SelectLess(tp, bound) == SelectSeq(tp, LAMBDA t : Less(t, bound))

None == [given |-> FALSE, val |-> 0]
Some(v) == [given |-> TRUE, val |-> v]
NoGains == [given |-> FALSE, val |-> <<>>]

NoBuffer == [returned |-> FALSE, normalized |-> FALSE, y |-> <<>>]

-----------------------------------------------------------------------------
(* sonify_f0, lines 52-58: gains check and default, columns, natural length *)

\* the check of line 53 left out
AssertGainsOff(tf, g) == TRUE

AssertGains(tf, g) == g.given => Len(g.val) = Len(tf)

EntryError(tf, g) ==
    IF ~AssertGains(tf, g) THEN "AssertionError"
    ELSE IF Len(tf) = 0 THEN "IndexError"
    ELSE "none"

ResolveGains(tf, g) == IF g.given THEN g.val ELSE Ones(Len(tf))

TimeColumn(tf) == [p \in 1..Len(tf) |-> Time(tf[p].t)]

F0Column(tf) == [p \in 1..Len(tf) |-> tf[p].f0]

\* the last time position rounded up instead of truncated
LastSampleCeil(tp, rate) == CeilMul(tp[Len(tp)], rate)

\* int(time_positions[-1] * fs)
LastSample(tp, rate) == IntMul(tp[Len(tp)], rate)

(* sonify_f0, lines 60-79: reconcile the requested duration *)

Reconcile(tp, f, natural, dur, rate) ==
    IF ~dur.given
    THEN [time_positions |-> tp, f0s |-> f, shorter_duration |-> FALSE,
          num_samples |-> natural]
    ELSE LET duration_in_sec == [n |-> dur.val, d |-> rate]
             cropped == Append1(SelectLess(tp, duration_in_sec), duration_in_sec)
             padded == Append1(tp, duration_in_sec)
         IN  IF dur.val = natural
             THEN [time_positions |-> tp, f0s |-> f, shorter_duration |-> FALSE,
                   num_samples |-> LastSample(tp, rate)]
             ELSE IF dur.val < natural
             THEN [time_positions |-> cropped,
                   f0s |-> Prefix(f, Len(cropped)),
                   shorter_duration |-> TRUE,
                   num_samples |-> LastSample(cropped, rate)]
             ELSE [time_positions |-> padded,
                   f0s |-> Append1(f, 0),
                   shorter_duration |-> FALSE,
                   num_samples |-> LastSample(padded, rate)]

(* sonify_f0, lines 81-96: zero-order-hold stretching *)

\* zip(time_positions, f0s, gains) stops at the shortest of the three
ZipLen(tp, f, g) == Min(Len(tp), Min(Len(f), Len(g)))

\* the loop body holding the value of the next breakpoint instead of this one
StretchStepNext(i, tp, f, g, shorter, rate, dense) ==
    IF i = Len(tp) - 1
    THEN dense
    ELSE [f0s_stretched |->
              AssignSlice(dense.f0s_stretched, IntMul(tp[i + 1], rate),
                          IntMul(tp[i + 2], rate), f[Min(i + 2, Len(f))]),
          gains_stretched |->
              AssignSlice(dense.gains_stretched, IntMul(tp[i + 1], rate),
                          IntMul(tp[i + 2], rate), g[Min(i + 2, Len(g))])]

\* body of the loop for 0-based index i
StretchStep(i, tp, f, g, shorter, rate, dense) ==
    IF i = Len(tp) - 1
    THEN IF ~shorter
         THEN [f0s_stretched |->
                  AssignSlice(dense.f0s_stretched, IntMul(tp[i + 1], rate),
                              Len(dense.f0s_stretched), 0),
               gains_stretched |->
                  AssignSlice(dense.gains_stretched, IntMul(tp[i + 1], rate),
                              Len(dense.gains_stretched), 0)]
         ELSE dense
    ELSE [f0s_stretched |->
              AssignSlice(dense.f0s_stretched, IntMul(tp[i + 1], rate),
                          IntMul(tp[i + 2], rate), f[i + 1]),
          gains_stretched |->
              AssignSlice(dense.gains_stretched, IntMul(tp[i + 1], rate),
                          IntMul(tp[i + 2], rate), g[i + 1])]

RECURSIVE StretchLoop(_, _, _, _, _, _, _)
StretchLoop(i, tp, f, g, shorter, rate, dense) ==
    IF i >= ZipLen(tp, f, g) THEN dense
    ELSE StretchLoop(i + 1, tp, f, g, shorter, rate,
                     StretchStep(i, tp, f, g, shorter, rate, dense))

Stretch(tp, f, g, len, shorter, rate) ==
    StretchLoop(0, tp, f, g, shorter, rate,
                [f0s_stretched |-> Zeros(len), gains_stretched |-> Zeros(len)])

(* sonify_f0, lines 99-108: synthesis and normalization.  A sample is kept  *)
(* symbolically as the list of its non-zero terms; a term is the gain and   *)
(* the accumulated phase (sum of the per-sample frequencies so far).        *)

RECURSIVE PhaseSum(_, _)
PhaseSum(fd, p) == IF p = 0 THEN 0 ELSE fd[p] + PhaseSum(fd, p - 1)

generate_tone_instantaneous_phase(fd, gd) ==
    [p \in 1..Len(fd) |->
        IF gd[p] = 0 THEN <<>>
        ELSE << [phase |-> PhaseSum(fd, p), gain |-> gd[p]] >>]

normalize_signal(buf, flag) ==
    [returned |-> TRUE, normalized |-> flag, y |-> buf]

(* sonify_f0 as a whole, lines 52-108 *)

sonify_f0(tf, g, dur, norm, rate) ==
    LET err == EntryError(tf, g)
        gr == ResolveGains(tf, g)
        tp == TimeColumn(tf)
        rec == Reconcile(tp, F0Column(tf), LastSample(tp, rate), dur, rate)
        dense == Stretch(rec.time_positions, rec.f0s, gr, rec.num_samples,
                         rec.shorter_duration, rate)
    IN  IF err # "none"
        THEN [raised |-> err, gains_resolved |-> <<>>, time_positions |-> <<>>,
              f0s |-> <<>>, num_samples |-> 0, shorter_duration |-> FALSE,
              f0s_stretched |-> <<>>, gains_stretched |-> <<>>,
              f0_sonification |-> NoBuffer]
        ELSE [raised |-> "none", gains_resolved |-> gr,
              time_positions |-> rec.time_positions, f0s |-> rec.f0s,
              num_samples |-> rec.num_samples,
              shorter_duration |-> rec.shorter_duration,
              f0s_stretched |-> dense.f0s_stretched,
              gains_stretched |-> dense.gains_stretched,
              f0_sonification |->
                  normalize_signal(
                      generate_tone_instantaneous_phase(dense.f0s_stretched,
                                                        dense.gains_stretched),
                      norm)]

-----------------------------------------------------------------------------
(* Inputs *)

Breakpoint == [t : 0..MaxTime, f0 : F0Vals]

Trajectories == UNION {[1..len -> Breakpoint] : len \in 0..MaxLen}

GainArrays == UNION {[1..len -> GainVals] : len \in 0..MaxLen}

Durations == {None} \cup {Some(d) : d \in {x \in 0..MaxDur : x % DurStep = 0}}

StrictlyIncreasing(tf) ==
    \A p \in 1..Len(tf) - 1 : tf[p].t < tf[p + 1].t

Valid(tf) == Len(tf) > 0 /\ StrictlyIncreasing(tf)

-----------------------------------------------------------------------------
(* A direct call of sonify_f0, stage by stage *)

MixIdle ==
    /\ preset_dict = <<>>
    /\ label = 0
    /\ mix_duration = None
    /\ mix_length = 0
    /\ mix_sonification = NoBuffer
    /\ mix_raised = "none"

FrameIdle ==
    /\ time_positions = <<>>
    /\ f0s = <<>>
    /\ num_samples = 0
    /\ shorter_duration = FALSE
    /\ gains_resolved = <<>>
    /\ f0s_stretched = <<>>
    /\ gains_stretched = <<>>
    /\ raised = "none"
    /\ f0_sonification = NoBuffer

Init ==
    /\ pc = "entry"
    /\ api = "sonify_f0"
    /\ fs \in FsVals
    /\ normalize \in BOOLEAN
    /\ time_f0 \in Trajectories
    /\ gains \in {NoGains} \cup {Some(g) : g \in GainArrays}
    /\ sonification_duration \in Durations
    /\ FrameIdle
    /\ MixIdle

\* lines 52-58
Enter ==
    /\ pc = "entry"
    /\ LET err == EntryError(time_f0, gains)
       IN  IF err # "none"
           THEN /\ raised' = err
                /\ pc' = "raised"
                /\ UNCHANGED <<gains_resolved, time_positions, f0s, num_samples>>
           ELSE /\ raised' = "none"
                /\ gains_resolved' = ResolveGains(time_f0, gains)
                /\ time_positions' = TimeColumn(time_f0)
                /\ f0s' = F0Column(time_f0)
                /\ num_samples' = LastSample(TimeColumn(time_f0), fs)
                /\ pc' = "reconcile"
    /\ UNCHANGED <<argvars, shorter_duration, f0s_stretched, gains_stretched,
                   f0_sonification, mixvars>>

\* lines 60-79
ReconcileDuration ==
    /\ pc = "reconcile"
    /\ LET rec == Reconcile(time_positions, f0s, num_samples,
                            sonification_duration, fs)
       IN  /\ time_positions' = rec.time_positions
           /\ f0s' = rec.f0s
           /\ shorter_duration' = rec.shorter_duration
           /\ num_samples' = rec.num_samples
    /\ pc' = "stretch"
    /\ UNCHANGED <<argvars, gains_resolved, f0s_stretched, gains_stretched,
                   raised, f0_sonification, mixvars>>

\* lines 81-96
StretchContour ==
    /\ pc = "stretch"
    /\ LET dense == Stretch(time_positions, f0s, gains_resolved, num_samples,
                            shorter_duration, fs)
       IN  /\ f0s_stretched' = dense.f0s_stretched
           /\ gains_stretched' = dense.gains_stretched
    /\ pc' = "synth"
    /\ UNCHANGED <<argvars, time_positions, f0s, num_samples, shorter_duration,
                   gains_resolved, raised, f0_sonification, mixvars>>

\* lines 99-108
Return ==
    /\ pc = "synth"
    /\ f0_sonification' =
          normalize_signal(
              generate_tone_instantaneous_phase(f0s_stretched, gains_stretched),
              normalize)
    /\ pc' = "done"
    /\ UNCHANGED <<argvars, time_positions, f0s, num_samples, shorter_duration,
                   gains_resolved, f0s_stretched, gains_stretched, raised,
                   mixvars>>

Next == Enter \/ ReconcileDuration \/ StretchContour \/ Return

Spec == Init /\ [][Next]_vars

-----------------------------------------------------------------------------
(* sonify_f0_with_presets *)

Absent == [kind |-> "absent", val |-> 0, arr |-> <<>>]
IntGain(v) == [kind |-> "int", val |-> v, arr |-> <<>>]
FloatGain(v) == [kind |-> "float", val |-> v, arr |-> <<>>]
ArrayGain(a) == [kind |-> "ndarray", val |-> 0, arr |-> a]

GainSpecs ==
    {Absent, IntGain(0), ArrayGain(Ones(MaxLen))}
        \cup {FloatGain(v) : v \in {0} \cup GainVals}

VoiceTrajectories ==
    {tf \in Trajectories :
        /\ StrictlyIncreasing(tf)
        /\ \A p \in 1..Len(tf) : tf[p].f0 = 440
        /\ Len(tf) > 0 => tf[1].t = 0}

Voices == [time_f0 : VoiceTrajectories, gain : GainSpecs]

\* lines 138-143: the maximum of the voices' last time positions, from 0
RECURSIVE max_duration(_, _, _)
max_duration(dict, i, cur) ==
    IF i > Len(dict) THEN cur
    ELSE LET last == Time(dict[i].time_f0[Len(dict[i].time_f0)].t)
         IN  max_duration(dict, i + 1, IF Less(cur, last) THEN last ELSE cur)

\* lines 148-155: per-breakpoint gains of a voice
isinstance_float(g) == g.kind = "float"

VoiceGains(v) ==
    IF v.gain.kind # "absent" /\ isinstance_float(v.gain)
    THEN [p \in 1..Len(v.time_f0) |-> (GainDen * v.gain.val) \div GainDen]
    ELSE IF v.gain.kind = "ndarray" THEN v.gain.arr
    ELSE Ones(Len(v.time_f0))

\* line 157: f0_sonification += buffer, with numpy's broadcasting rules
CanAdd(buf, add) == Len(add) = Len(buf) \/ Len(add) = 1

InPlaceAdd(buf, add) ==
    [p \in 1..Len(buf) |->
        buf[p] \o (IF Len(add) = Len(buf) THEN add[p] ELSE add[1])]

InitPresets ==
    /\ pc = "mix_entry"
    /\ api = "sonify_f0_with_presets"
    /\ fs \in FsVals
    /\ normalize \in BOOLEAN
    /\ preset_dict \in UNION {[1..k -> Voices] : k \in 0..MaxVoices}
    /\ mix_duration \in Durations
    /\ label = 0
    /\ mix_length = 0
    /\ mix_sonification = NoBuffer
    /\ mix_raised = "none"
    /\ time_f0 = <<>>
    /\ gains = NoGains
    /\ sonification_duration = None
    /\ FrameIdle

\* lines 138-145
MixDuration ==
    /\ pc = "mix_entry"
    /\ IF ~mix_duration.given /\ \E i \in 1..Len(preset_dict) :
                                      Len(preset_dict[i].time_f0) = 0
       THEN /\ mix_raised' = "IndexError"
            /\ pc' = "mix_raised"
            /\ UNCHANGED <<mix_length, mix_sonification>>
       ELSE /\ mix_length' =
                  IF mix_duration.given THEN mix_duration.val
                  ELSE CeilMul(max_duration(preset_dict, 1, Time(0)), fs)
            /\ mix_sonification' =
                  [NoBuffer EXCEPT !.y = [p \in 1..mix_length' |-> <<>>]]
            /\ pc' = "mix_loop"
            /\ UNCHANGED mix_raised
    /\ UNCHANGED <<api, fs, normalize, preset_dict, label, mix_duration,
                   time_f0, gains, sonification_duration, time_positions, f0s,
                   num_samples, shorter_duration, gains_resolved,
                   f0s_stretched, gains_stretched, raised, f0_sonification>>

\* lines 147-164: one iteration of the loop over the voices (every preset name
\* is registered; the partials it selects do not enter the dense arrays)
MixVoice ==
    /\ pc = "mix_loop"
    /\ label < Len(preset_dict)
    /\ \E v \in {preset_dict[label + 1]} :
       \E r \in {sonify_f0(v.time_f0, Some(VoiceGains(v)), Some(mix_length),
                           FALSE, fs)} :
           /\ time_f0' = v.time_f0
           /\ gains' = Some(VoiceGains(v))
           /\ sonification_duration' = Some(mix_length)
           /\ raised' = r.raised
           /\ gains_resolved' = r.gains_resolved
           /\ time_positions' = r.time_positions
           /\ f0s' = r.f0s
           /\ num_samples' = r.num_samples
           /\ shorter_duration' = r.shorter_duration
           /\ f0s_stretched' = r.f0s_stretched
           /\ gains_stretched' = r.gains_stretched
           /\ f0_sonification' = r.f0_sonification
           /\ IF r.raised # "none"
              THEN /\ mix_raised' = r.raised
                   /\ pc' = "mix_raised"
                   /\ UNCHANGED <<label, mix_sonification>>
              ELSE IF ~CanAdd(mix_sonification.y, r.f0_sonification.y)
              THEN /\ mix_raised' = "ValueError"
                   /\ pc' = "mix_raised"
                   /\ UNCHANGED <<label, mix_sonification>>
              ELSE /\ mix_sonification' =
                         [mix_sonification EXCEPT
                            !.y = InPlaceAdd(@, r.f0_sonification.y)]
                   /\ label' = label + 1
                   /\ pc' = "mix_loop"
                   /\ UNCHANGED mix_raised
    /\ UNCHANGED <<api, fs, normalize, preset_dict, mix_duration, mix_length>>

\* lines 166-168
MixReturn ==
    /\ pc = "mix_loop"
    /\ label = Len(preset_dict)
    /\ mix_sonification' = normalize_signal(mix_sonification.y, normalize)
    /\ pc' = "mix_done"
    /\ UNCHANGED <<api, fs, normalize, preset_dict, label, mix_duration,
                   mix_length, mix_raised,
                   time_f0, gains, sonification_duration, time_positions, f0s,
                   num_samples, shorter_duration, gains_resolved,
                   f0s_stretched, gains_stretched, raised, f0_sonification>>

NextPresets == MixDuration \/ MixVoice \/ MixReturn

SpecPresets == InitPresets /\ [][NextPresets]_vars

-----------------------------------------------------------------------------
(* Calls of either function with gain arrays of every length up to MaxLen,  *)
(* matching the breakpoint count or not                                     *)

RampTrajectories ==
    {[p \in 1..len |-> [t |-> p - 1, f0 |-> 440]] : len \in 0..MaxLen}

GainVoices ==
    [time_f0 : RampTrajectories,
     gain : {Absent} \cup {ArrayGain(Ones(len)) : len \in 0..MaxLen}]

InitGains ==
    \/ /\ pc = "entry"
       /\ api = "sonify_f0"
       /\ fs \in FsVals
       /\ normalize = TRUE
       /\ time_f0 \in {tf \in Trajectories : \A p \in 1..Len(tf) : tf[p].f0 = 440}
       /\ gains \in {NoGains} \cup {Some(g) : g \in GainArrays}
       /\ sonification_duration \in Durations
       /\ FrameIdle
       /\ MixIdle
    \/ /\ pc = "mix_entry"
       /\ api = "sonify_f0_with_presets"
       /\ fs \in FsVals
       /\ normalize = TRUE
       /\ preset_dict \in UNION {[1..k -> GainVoices] : k \in 0..MaxVoices}
       /\ mix_duration \in Durations
       /\ label = 0
       /\ mix_length = 0
       /\ mix_sonification = NoBuffer
       /\ mix_raised = "none"
       /\ time_f0 = <<>>
       /\ gains = NoGains
       /\ sonification_duration = None
       /\ FrameIdle

SpecGains == InitGains /\ [][Next \/ NextPresets]_vars

-----------------------------------------------------------------------------
(* Properties *)

LastTime(tf) == tf[Len(tf)].t

\* exact floor and ceiling of (h / TimeDen) * fs
FloorSamples(h) == (h * fs) \div TimeDen
CeilSamples(h) == (h * fs + TimeDen - 1) \div TimeDen

Direct == api = "sonify_f0"
Finished == Direct /\ pc = "done" /\ Valid(time_f0)

\* C1: when the requested duration D exceeds the natural length, every sample
\* of the trailing span [natural_length, D) has dense frequency 0 and gain 0.
C1_SilencePad ==
    (Finished /\ sonification_duration.given
              /\ sonification_duration.val > FloorSamples(LastTime(time_f0)))
    => \A k \in FloorSamples(LastTime(time_f0))..(sonification_duration.val - 1) :
          k < Len(f0s_stretched)
          => f0s_stretched[k + 1] = 0 /\ gains_stretched[k + 1] = 0

\* C2 (as stated): without a requested duration the dense arrays and the
\* output have length ceil(last_breakpoint_time * fs).
C2_NaturalLengthCeil ==
    (Finished /\ ~sonification_duration.given)
    => /\ Len(f0s_stretched) = CeilSamples(LastTime(time_f0))
       /\ Len(gains_stretched) = CeilSamples(LastTime(time_f0))
       /\ Len(f0_sonification.y) = CeilSamples(LastTime(time_f0))

\* C2 (amended): without a requested duration the dense arrays and the output
\* have length int(last_breakpoint_time * fs), the product truncated.
C2_NaturalLengthTrunc ==
    (Finished /\ ~sonification_duration.given)
    => /\ Len(f0s_stretched) = FloorSamples(LastTime(time_f0))
       /\ Len(gains_stretched) = FloorSamples(LastTime(time_f0))
       /\ Len(f0_sonification.y) = FloorSamples(LastTime(time_f0))
       /\ f0_sonification.returned

C2_Witness ==
    /\ Finished /\ ~sonification_duration.given
    /\ (LastTime(time_f0) * fs) % TimeDen # 0
    /\ Len(f0_sonification.y) > 0

\* C5: a requested duration D below the natural length gives an output of
\* length exactly D.
C5_Truncation ==
    (Finished /\ sonification_duration.given
              /\ sonification_duration.val < FloorSamples(LastTime(time_f0)))
    => Len(f0_sonification.y) = sonification_duration.val

\* C6: a trajectory that is empty or not strictly increasing in time is
\* rejected before any stretching or synthesis, and no buffer is returned.
C6_InvalidRejected ==
    (Direct /\ ~Valid(time_f0))
    => /\ pc \in {"entry", "raised"}
       /\ ~f0_sonification.returned

\* t_i * fs <= k < t_{i+1} * fs, compared exactly
InSpan(k, lo, hi) == lo.n * fs <= k * lo.d /\ k * hi.d < hi.n * fs

\* int(t_i * fs) <= k < int(t_{i+1} * fs)
InSlice(k, lo, hi) == IntMul(lo, fs) <= k /\ k < IntMul(hi, fs)

\* C9 (as stated): every output sample k with t_i*fs <= k < t_{i+1}*fs holds
\* the frequency and gain of breakpoint i of the reconciled breakpoint list.
C9_ZeroOrderHoldExact ==
    Finished
    => \A i \in 1..(Len(time_positions) - 1) :
         \A k \in 0..(Len(f0s_stretched) - 1) :
            InSpan(k, time_positions[i], time_positions[i + 1])
            => /\ f0s_stretched[k + 1] = f0s[i]
               /\ gains_stretched[k + 1] = gains_resolved[i]

\* C9 (amended): every output sample k with int(t_i*fs) <= k < int(t_{i+1}*fs)
\* holds the frequency and gain of breakpoint i, without interpolation.
C9_ZeroOrderHoldTrunc ==
    Finished
    => \A i \in 1..(Len(time_positions) - 1) :
         \A k \in 0..(Len(f0s_stretched) - 1) :
            InSlice(k, time_positions[i], time_positions[i + 1])
            => /\ f0s_stretched[k + 1] = f0s[i]
               /\ gains_stretched[k + 1] = gains_resolved[i]

C9_Witness ==
    /\ Finished /\ shorter_duration
    /\ Len(time_positions) = 2
    /\ \E k \in 0..(Len(f0s_stretched) - 1) :
          /\ InSlice(k, time_positions[1], time_positions[2])
          /\ f0s_stretched[k + 1] = f0s[1]
          /\ gains_stretched[k + 1] = gains_resolved[1]
          /\ gains_stretched[k + 1] # 0
    /\ \E k \in 0..(Len(f0s_stretched) - 1) :
          ~InSlice(k, time_positions[1], time_positions[2])

-----------------------------------------------------------------------------
(* Properties of sonify_f0_with_presets *)

Mixer == api = "sonify_f0_with_presets"

\* the voice whose call of sonify_f0 the frame variables hold
FrameVoice == preset_dict[IF pc = "mix_raised" THEN label + 1 ELSE label]

\* the per-breakpoint array a scalar gain of value g (in 1/GainDen) stands for
Broadcast(len, g) == [p \in 1..len |-> g]

\* C10: a voice with a scalar gain g, of any numeric type, hands sonify_f0 a
\* gain array with g at every breakpoint; a voice without gain hands it ones.
C10_ScalarBroadcast ==
    (Mixer /\ gains.given)
    => LET v == FrameVoice
       IN  /\ v.gain.kind = "float"
               => gains.val = Broadcast(Len(v.time_f0), v.gain.val)
           /\ v.gain.kind = "int"
               => gains.val = Broadcast(Len(v.time_f0), GainDen * v.gain.val)
           /\ v.gain.kind = "absent"
               => gains.val = Broadcast(Len(v.time_f0), GainDen)

\* C7: an empty voice set is rejected; no buffer is ever returned for it.
C7_EmptyVoiceSet ==
    (Mixer /\ preset_dict = <<>>)
    => /\ pc # "mix_done"
       /\ ~mix_sonification.returned

RECURSIVE MaxLastTime(_, _)
MaxLastTime(dict, i) ==
    IF i > Len(dict) THEN 0
    ELSE LET rest == MaxLastTime(dict, i + 1)
             mine == LastTime(dict[i].time_f0)
         IN  IF mine > rest THEN mine ELSE rest

\* C4: without a requested duration the output length is
\* ceil(fs * latest last breakpoint time); and every voice's buffer has exactly
\* the common length, so that the accumulation never meets a length mismatch.
C4_CommonLength ==
    /\ (Mixer /\ pc = "mix_done" /\ ~mix_duration.given)
       => Len(mix_sonification.y) = CeilSamples(MaxLastTime(preset_dict, 1))
    /\ (Mixer /\ gains.given /\ raised = "none")
       => Len(f0_sonification.y) = mix_length
    /\ (Mixer => mix_raised # "ValueError")

Silent(v) == v.gain.kind \in {"int", "float"} /\ v.gain.val = 0

Unity(v) == v.gain.kind = "absent"
            \/ (v.gain.kind = "float" /\ v.gain.val = GainDen)

\* the waveform a voice produces on its own, normalized
Solo(v) == sonify_f0(v.time_f0, NoGains, None, TRUE, fs).f0_sonification

\* C3: with normalize, the mix of a silent voice and a voice at gain 1 is the
\* normalized waveform of the second voice on its own: same length and samples.
C3_NeutralElement ==
    (/\ Mixer /\ normalize /\ Len(preset_dict) = 2
     /\ ~mix_duration.given
     /\ pc \in {"mix_done", "mix_raised"}
     /\ \A i \in 1..2 : Valid(preset_dict[i].time_f0))
    => \A i \in 1..2 :
         (Silent(preset_dict[i]) /\ Unity(preset_dict[3 - i]))
         => /\ pc = "mix_done"
            /\ mix_sonification = Solo(preset_dict[3 - i])

\* a voice whose gain is an array of the wrong length
Mismatched(v) == v.gain.kind = "ndarray" /\ Len(v.gain.arr) # Len(v.time_f0)

FirstMismatched ==
    CHOOSE i \in 1..Len(preset_dict) :
        /\ Mismatched(preset_dict[i])
        /\ \A j \in 1..(i - 1) : ~Mismatched(preset_dict[j])

====
